---- MODULE Spec2Model ----
(***************************************************************************)
(* Model of the OTP ledger of src/index.py: the nested in-memory store     *)
(* otp_store[phone_number][device_id] and the three handlers that change   *)
(* it (send_otp, verify_otp, clear_otp).  Strings that the code trims or   *)
(* measures (phone numbers, submitted codes) are sequences of characters;  *)
(* the clock counts minutes.  The read-only handler get_all_otps and the    *)
(* requests the event loop has accepted but not yet run are modelled too.  *)
(***************************************************************************)
EXTENDS Integers, Sequences, FiniteSets, Bags, TLC

VARIABLES otp_store, now, result, clients, served, issued, misses, fresh,
          removed, body, pending

vars == <<otp_store, now, result, clients, served, issued, misses, fresh,
          removed, body, pending>>

----------------------------------------------------------------------------
(* Bounds of the model *)

MaxTime == 6

MaxRequests == 3

(* Program constants *)

expiry_minutes == 5

otp_length == 6

max_attempts == 3

min_phone_length == 10

default_device == "default-device"

string_digits == {"0", "1", "2", "3", "4", "5", "6", "7", "8", "9"}

whitespace == {" ", "\t", "\n", "\r"}

----------------------------------------------------------------------------
(* Optional[str]: None is the empty tuple, a present string s is <<s>> *)

None == <<>>

Some(s) == <<s>>

(* a Python dict with no keys *)
EmptyDict == <<>>

----------------------------------------------------------------------------
(* str.strip(): drop leading and trailing whitespace *)

RECURSIVE lstrip(_)
lstrip(s) ==
    IF s = <<>> THEN <<>>
    ELSE IF Head(s) \in whitespace THEN lstrip(Tail(s))
    ELSE s

RECURSIVE rstrip(_)
rstrip(s) ==
    IF s = <<>> THEN <<>>
    ELSE IF s[Len(s)] \in whitespace THEN rstrip(SubSeq(s, 1, Len(s) - 1))
    ELSE s

strip(s) == rstrip(lstrip(s))

(* variant: only a missing device_id is replaced, an empty one is kept *)
resolve_device_absent_only(d) == IF d = None THEN default_device ELSE d[1]

(* request.device_id or "default-device" *)
resolve_device(d) ==
    IF d = None \/ d = Some("") THEN default_device ELSE d[1]

(* the (phone_number, device_id) pair a handler works on *)
identity_key(phone_in, device_in) == <<strip(phone_in), resolve_device(device_in)>>

(* variant: only the emptiness of the phone number is tested *)
invalid_phone_empty_only(phone_number) == phone_number = <<>>

(* not phone_number or len(phone_number) < 10 *)
invalid_phone(phone_number) ==
    phone_number = <<>> \/ Len(phone_number) < min_phone_length

----------------------------------------------------------------------------
(* Inputs *)

RECURSIVE Repeat(_, _)
Repeat(c, n) == IF n = 0 THEN <<>> ELSE <<c>> \o Repeat(c, n - 1)

SampleDigits == {"0", "7"}

(* the outcomes of random.choices(string.digits, k=length) the model draws *)
generate_otp(length) == {Repeat(c, length) : c \in SampleDigits \cap string_digits}

PhoneA == <<"5", "5", "5", "1", "2", "3", "4", "5", "6", "7">>

PhoneB == <<"1">> \o PhoneA

ShortPhone == SubSeq(PhoneA, 1, 9)

PhoneInputs ==
    { <<" ", " ">>,
      <<" ">> \o ShortPhone \o <<" ">>,
      <<" ">> \o PhoneA \o <<"\n">>,
      PhoneB }

DeviceInputs == {None, Some(""), Some(default_device), Some("deviceA")}

OtpInputs ==
    generate_otp(otp_length)
        \cup {<<" ">> \o Repeat("0", otp_length) \o <<" ">>, Repeat("9", otp_length)}

(* the instants the clock is read at: issue time, the last minute of the TTL
   and the minutes after it *)
Instants == {t \in 0..MaxTime : t = 0 \/ t >= expiry_minutes}

(* Who sends requests: clients of one identity key (and of malformed phone
   numbers) that send any number of requests, or clients of two devices of
   one phone, or of two phones, that send at most MaxRequests requests *)
Populations ==
    { [phones |-> PhoneInputs \ {PhoneB},
       devices |-> DeviceInputs \ {Some("deviceA")},
       capped |-> FALSE],
      [phones |-> {PhoneB},
       devices |-> {None, Some("deviceA")},
       capped |-> TRUE],
      [phones |-> {p \in PhoneInputs : ~invalid_phone(strip(p))},
       devices |-> {Some(default_device)},
       capped |-> TRUE] }

Keys == {identity_key(p, d) : p \in PhoneInputs, d \in DeviceInputs}

----------------------------------------------------------------------------
(* The store *)

(* phone_number in otp_store and device_id in otp_store[phone_number] *)
HasRecord(store, p, d) == p \in DOMAIN store /\ d \in DOMAIN store[p]

(* variant: the phone entry is kept when its last record goes *)
DelRecord_keeping_phone(store, p, d) ==
    [q \in DOMAIN store |->
        IF q = p THEN [x \in DOMAIN store[p] \ {d} |-> store[p][x]] ELSE store[q]]

(* variant: the phone entry goes with the record, other devices included *)
DelRecord_whole_phone(store, p, d) == [q \in DOMAIN store \ {p} |-> store[q]]

(* del otp_store[p][d]; if not otp_store[p]: del otp_store[p] *)
DelRecord(store, p, d) ==
    LET devices == [x \in DOMAIN store[p] \ {d} |-> store[p][x]]
    IN  IF devices = EmptyDict
        THEN [q \in DOMAIN store \ {p} |-> store[q]]
        ELSE [q \in DOMAIN store |-> IF q = p THEN devices ELSE store[q]]

(* the record send_otp stores *)
FreshRecord(otp, t) ==
    [otp |-> otp, created_at |-> t, attempts |-> 0, verified |-> FALSE]

(* variant: a record already stored only has its code and time refreshed *)
PutRecord_refreshing(store, p, d, rec) ==
    LET old == IF p \in DOMAIN store THEN store[p] ELSE EmptyDict
        devices == [x \in DOMAIN old \cup {d} |->
                       IF x # d THEN old[x]
                       ELSE IF d \in DOMAIN old
                            THEN [old[d] EXCEPT !.otp = rec.otp,
                                                !.created_at = rec.created_at]
                            ELSE rec]
    IN  [q \in DOMAIN store \cup {p} |-> IF q = p THEN devices ELSE store[q]]

(* variant: the phone entry is created anew for every record *)
PutRecord_single_device(store, p, d, rec) ==
    [q \in DOMAIN store \cup {p} |-> IF q = p THEN [x \in {d} |-> rec] ELSE store[q]]

(* otp_store[p][d] = rec, after the phone entry has been ensured *)
PutRecord(store, p, d, rec) ==
    LET old == IF p \in DOMAIN store THEN store[p] ELSE EmptyDict
        devices == [x \in DOMAIN old \cup {d} |-> IF x = d THEN rec ELSE old[x]]
    IN  [q \in DOMAIN store \cup {p} |-> IF q = p THEN devices ELSE store[q]]

(* otp_store[p][d][field] = value *)
SetField(store, p, d, rec) ==
    [store EXCEPT ![p] = [@ EXCEPT ![d] = rec]]

(* variant: a record counts as expired already at the end of its last minute *)
is_otp_expired_at_ttl(created_time, t) == t >= created_time + expiry_minutes

(* datetime.now() > created_time + timedelta(minutes=expiry_minutes) *)
is_otp_expired(created_time, t) == t > created_time + expiry_minutes

(* variant: the cap is reached one attempt later *)
exhausted_late(rec) == rec.attempts > max_attempts

(* stored_data["attempts"] >= 3 *)
exhausted(rec) == rec.attempts >= max_attempts

(* variant: the count is taken from the attempts before the increment *)
remaining_attempts_stale(attempts) == max_attempts - (attempts - 1)

(* 3 - attempts *)
remaining_attempts(attempts) == max_attempts - attempts

----------------------------------------------------------------------------
(* The handlers as functions of the store *)

(* variant: a key that already holds a record keeps it *)
SendStore_keeping_first(store, p, d, otp, t) ==
    IF p \in DOMAIN store /\ d \in DOMAIN store[p]
    THEN store
    ELSE PutRecord(store, p, d, FreshRecord(otp, t))

(* send_otp: the store after a request that passed validation *)
SendStore(store, p, d, otp, t) == PutRecord(store, p, d, FreshRecord(otp, t))

(* variant: the code is compared first, expiry and cap only for a wrong code *)
VerifyOutcome_code_first(store, p, d, otp, t) ==
    IF ~HasRecord(store, p, d) THEN "NotFound"
    ELSE IF store[p][d].otp = otp THEN "Matched"
    ELSE IF is_otp_expired(store[p][d].created_at, t) THEN "Expired"
    ELSE IF exhausted(store[p][d]) THEN "TooManyAttempts"
    ELSE "Mismatch"

(* variant: a code that has been verified once is not accepted again *)
VerifyOutcome_single_use(store, p, d, otp, t) ==
    IF ~HasRecord(store, p, d) THEN "NotFound"
    ELSE IF is_otp_expired(store[p][d].created_at, t) THEN "Expired"
    ELSE IF exhausted(store[p][d]) THEN "TooManyAttempts"
    ELSE IF store[p][d].otp = otp /\ ~store[p][d].verified THEN "Matched"
    ELSE "Mismatch"

(* variant: the attempt cap is tested before the expiry *)
VerifyOutcome_cap_first(store, p, d, otp, t) ==
    IF ~HasRecord(store, p, d) THEN "NotFound"
    ELSE IF exhausted(store[p][d]) THEN "TooManyAttempts"
    ELSE IF is_otp_expired(store[p][d].created_at, t) THEN "Expired"
    ELSE IF store[p][d].otp = otp THEN "Matched"
    ELSE "Mismatch"

(* variant: a known phone with an unknown device is answered as expired *)
VerifyOutcome_by_phone(store, p, d, otp, t) ==
    IF p \notin DOMAIN store THEN "NotFound"
    ELSE IF d \notin DOMAIN store[p] THEN "Expired"
    ELSE IF is_otp_expired(store[p][d].created_at, t) THEN "Expired"
    ELSE IF exhausted(store[p][d]) THEN "TooManyAttempts"
    ELSE IF store[p][d].otp = otp THEN "Matched"
    ELSE "Mismatch"

(* verify_otp: the outcome for normalised key (p, d), trimmed code otp, time t *)
VerifyOutcome(store, p, d, otp, t) ==
    IF ~HasRecord(store, p, d) THEN "NotFound"
    ELSE IF is_otp_expired(store[p][d].created_at, t) THEN "Expired"
    ELSE IF exhausted(store[p][d]) THEN "TooManyAttempts"
    ELSE IF store[p][d].otp = otp THEN "Matched"
    ELSE "Mismatch"

(* variant: every comparison is counted as an attempt, a matching one too *)
VerifyStore_counting_matches(store, p, d, otp, t) ==
    LET outcome == VerifyOutcome(store, p, d, otp, t)
    IN  CASE outcome = "NotFound" -> store
          [] outcome = "Expired" -> DelRecord(store, p, d)
          [] outcome = "TooManyAttempts" -> DelRecord(store, p, d)
          [] outcome = "Matched" ->
                SetField(store, p, d, [store[p][d] EXCEPT !.verified = TRUE,
                                                          !.attempts = @ + 1])
          [] outcome = "Mismatch" ->
                SetField(store, p, d, [store[p][d] EXCEPT !.attempts = @ + 1])

(* verify_otp: the store it leaves *)
VerifyStore(store, p, d, otp, t) ==
    LET outcome == VerifyOutcome(store, p, d, otp, t)
    IN  CASE outcome = "NotFound" -> store
          [] outcome = "Expired" -> DelRecord(store, p, d)
          [] outcome = "TooManyAttempts" -> DelRecord(store, p, d)
          [] outcome = "Matched" ->
                SetField(store, p, d, [store[p][d] EXCEPT !.verified = TRUE])
          [] outcome = "Mismatch" ->
                SetField(store, p, d, [store[p][d] EXCEPT !.attempts = @ + 1])

(* variant: the whole phone entry is dropped, whatever the device *)
ClearStore_by_phone(store, p, d) ==
    IF p \in DOMAIN store THEN [q \in DOMAIN store \ {p} |-> store[q]] ELSE store

(* clear_otp: the store it leaves *)
ClearStore(store, p, d) ==
    IF HasRecord(store, p, d) THEN DelRecord(store, p, d) ELSE store

(* datetime.isoformat(): the time as text *)
isoformat(t) == <<"iso", t>>

(* what get_all_otps reports for one record *)
demo_entry(data, t) ==
    [otp |-> data.otp,
     created_at |-> isoformat(data.created_at),
     attempts |-> data.attempts,
     verified |-> data.verified,
     expired |-> is_otp_expired(data.created_at, t)]

(* variant: records that have expired are left out of the listing *)
demo_data_unexpired(store, t) ==
    LET live(phone) == {device_id \in DOMAIN store[phone] :
                          ~is_otp_expired(store[phone][device_id].created_at, t)}
    IN  [phone \in {q \in DOMAIN store : live(q) # {}} |->
            [device_id \in live(phone) |-> demo_entry(store[phone][device_id], t)]]

(* get_all_otps: the listing it builds *)
demo_data(store, t) ==
    [phone \in DOMAIN store |->
        [device_id \in DOMAIN store[phone] |-> demo_entry(store[phone][device_id], t)]]

(* Status of the specification: the fields of the record of one key with the
   computed expired flag, or the notice that the key holds none *)
status_info(store, p, d, t) ==
    IF HasRecord(store, p, d)
    THEN [exists |-> TRUE, info |-> Some(demo_entry(store[p][d], t))]
    ELSE [exists |-> FALSE, info |-> None]

----------------------------------------------------------------------------
(* The last request served (handler, normalised key, the code submitted to
   verify_otp as it came) and the response it got *)

Response(op, p, d, outcome, otp, remaining) ==
    [op |-> op, phone |-> p, device |-> d, outcome |-> outcome,
     otp |-> otp, remaining |-> remaining]

(* History kept per identity key for the properties below:
   issued - the codes send_otp returned for the key, the latest last (at most
            two kept);
   misses - the Mismatch outcomes on the record the key holds now;
   fresh  - the last request on the key was a successful send_otp.
   Kept for the last request alone:
   removed - the record it deleted (None if it deleted none);
   body    - what it returned, for the handlers that only read. *)
Remember(codes, otp) ==
    IF Len(codes) < 2 THEN Append(codes, otp) ELSE <<codes[2], otp>>

----------------------------------------------------------------------------
Init ==
    /\ otp_store = EmptyDict
    /\ now = 0
    /\ result = Response("none", <<>>, "", "none", None, None)
    /\ clients \in Populations
    /\ served = 0
    /\ issued = [k \in Keys |-> <<>>]
    /\ misses = [k \in Keys |-> 0]
    /\ fresh = [k \in Keys |-> FALSE]
    /\ removed = None
    /\ body = None
    /\ pending = EmptyBag

(* POST /send-otp *)
send_otp(phone_in, device_in, otp) ==
    LET phone_number == strip(phone_in)
        device_id == resolve_device(device_in)
        k == <<phone_number, device_id>>
    IN  IF invalid_phone(phone_number)
        THEN /\ result' = Response("send_otp", phone_number, device_id,
                                   "InvalidInput", None, None)
             /\ removed' = None
             /\ body' = None
             /\ UNCHANGED <<otp_store, issued, misses, fresh>>
        ELSE /\ otp_store' = SendStore(otp_store, phone_number, device_id, otp, now)
             /\ result' = Response("send_otp", phone_number, device_id,
                                   "Sent", Some(otp), None)
             /\ issued' = [issued EXCEPT ![k] = Remember(@, otp)]
             /\ misses' = [misses EXCEPT ![k] = 0]
             /\ fresh' = [fresh EXCEPT ![k] = TRUE]
             /\ removed' = None
             /\ body' = None

(* POST /verify-otp *)
verify_otp(phone_in, device_in, otp_in) ==
    LET phone_number == strip(phone_in)
        device_id == resolve_device(device_in)
        otp == strip(otp_in)
        k == <<phone_number, device_id>>
        outcome == VerifyOutcome(otp_store, phone_number, device_id, otp, now)
    IN  /\ otp_store' = VerifyStore(otp_store, phone_number, device_id, otp, now)
        /\ result' = Response("verify_otp", phone_number, device_id, outcome, Some(otp_in),
                              IF outcome = "Mismatch"
                              THEN Some(remaining_attempts(
                                       otp_store'[phone_number][device_id].attempts))
                              ELSE None)
        /\ misses' = [misses EXCEPT ![k] =
                         CASE outcome = "Mismatch" -> @ + 1
                           [] outcome \in {"Expired", "TooManyAttempts"} -> 0
                           [] OTHER -> @]
        /\ fresh' = [fresh EXCEPT ![k] = FALSE]
        /\ removed' = IF /\ HasRecord(otp_store, phone_number, device_id)
                         /\ ~HasRecord(otp_store', phone_number, device_id)
                      THEN Some(otp_store[phone_number][device_id]) ELSE None
        /\ body' = None
        /\ UNCHANGED issued

(* DELETE /clear-otp/{phone_number}/{device_id} *)
clear_otp(phone_in, device_in) ==
    LET phone_number == strip(phone_in)
        device_id == resolve_device(device_in)
        k == <<phone_number, device_id>>
    IN  /\ otp_store' = ClearStore(otp_store, phone_number, device_id)
        /\ result' = Response("clear_otp", phone_number, device_id,
                              IF HasRecord(otp_store, phone_number, device_id)
                              THEN "Cleared" ELSE "NoOtpFound",
                              None, None)
        /\ misses' = [misses EXCEPT ![k] = 0]
        /\ fresh' = [fresh EXCEPT ![k] = FALSE]
        /\ removed' = IF HasRecord(otp_store, phone_number, device_id)
                      THEN Some(otp_store[phone_number][device_id]) ELSE None
        /\ body' = None
        /\ UNCHANGED issued

(* GET /demo/all-otps *)
get_all_otps ==
    /\ body' = Some(demo_data(otp_store, now))
    /\ result' = Response("get_all_otps", <<>>, "", "Listed", None, None)
    /\ removed' = None
    /\ UNCHANGED <<otp_store, issued, misses, fresh>>

(* GET /otp-status/{phone}/{device}, as the specification describes it *)
otp_status(phone_in, device_in) ==
    LET phone_number == strip(phone_in)
        device_id == resolve_device(device_in)
        info == status_info(otp_store, phone_number, device_id, now)
    IN  /\ body' = Some(info)
        /\ result' = Response("otp_status", phone_number, device_id,
                              IF info.exists THEN "Found" ELSE "Absent", None, None)
        /\ removed' = None
        /\ UNCHANGED <<otp_store, issued, misses, fresh>>

(* one more request has been served *)
Serve ==
    /\ IF clients.capped
       THEN served < MaxRequests /\ served' = served + 1
       ELSE UNCHANGED served
    /\ UNCHANGED <<now, clients, pending>>

(* the wall clock moves on to a later instant *)
Tick ==
    /\ \E t \in Instants : t > now /\ now' = t
    /\ UNCHANGED <<otp_store, result, clients, served, issued, misses, fresh,
                   removed, body, pending>>

Issue == \E p \in clients.phones, d \in clients.devices, c \in generate_otp(otp_length) :
            send_otp(p, d, c) /\ Serve

Verify == \E p \in clients.phones, d \in clients.devices, c \in OtpInputs :
            verify_otp(p, d, c) /\ Serve

Clear == \E p \in clients.phones, d \in clients.devices : clear_otp(p, d) /\ Serve

ListAll == get_all_otps /\ Serve

Status == \E p \in clients.phones, d \in clients.devices : otp_status(p, d) /\ Serve

Next == Issue \/ Verify \/ Clear \/ ListAll \/ Status \/ Tick

Spec == Init /\ [][Next]_vars

TypeOK ==
    /\ now \in 0..MaxTime
    /\ served \in 0..MaxRequests
    /\ \A p \in DOMAIN otp_store : \A d \in DOMAIN otp_store[p] :
          /\ otp_store[p][d].otp \in generate_otp(otp_length)
          /\ otp_store[p][d].created_at \in 0..now
          /\ otp_store[p][d].verified \in BOOLEAN

----------------------------------------------------------------------------
(* Requests in flight.  The server accepts requests concurrently and runs each
   handler as a coroutine on one event loop; a coroutine keeps the loop from
   the moment it is started until it awaits or returns. *)

(* variant: verify_otp awaits between its checks and its write *)
await_points_after_checks(op) == IF op = "verify_otp" THEN {"checked"} ELSE {}

(* where a handler hands the event loop back: the bodies of send_otp,
   verify_otp and clear_otp hold no await *)
await_points(op) == {}

(* clients that all address one identity key *)
ConcurrentClients ==
    [phones |-> {<<" ">> \o PhoneA \o <<"\n">>}, devices |-> {None}, capped |-> TRUE]

(* a request the server has accepted: the coroutine has not started (pc =
   "start") or is parked at an await (stored_data is what it read before) *)
InFlight(op, phone_in, device_in, otp_in) ==
    [op |-> op, phone_number |-> phone_in, device_id |-> device_in, otp |-> otp_in,
     pc |-> "start", stored_data |-> None]

Requests ==
    {InFlight("send_otp", p, d, None) : p \in clients.phones, d \in clients.devices}
    \cup {InFlight("clear_otp", p, d, None) : p \in clients.phones, d \in clients.devices}
    \cup UNION {{InFlight("verify_otp", p, d, Some(c)) : c \in OtpInputs} :
                   p \in clients.phones, d \in clients.devices}

(* a request arrives while others are still waiting for the event loop *)
Arrive ==
    /\ served < MaxRequests
    /\ served' = served + 1
    /\ \E r \in Requests : pending' = pending (+) SetToBag({r})
    /\ UNCHANGED <<otp_store, now, result, clients, issued, misses, fresh, removed, body>>

(* verify_otp from its comparison on (lines 106-115), for a coroutine that was
   parked after its checks: stored_data is the record object it read then,
   the writes go to whatever otp_store[phone_number][device_id] is now *)
resume_verify(r) ==
    LET phone_number == strip(r.phone_number)
        device_id == resolve_device(r.device_id)
        otp == strip(r.otp[1])
        k == <<phone_number, device_id>>
        matched == r.stored_data[1].otp = otp
    IN  /\ IF ~HasRecord(otp_store, phone_number, device_id)
           THEN /\ result' = Response("verify_otp", phone_number, device_id,
                                      "KeyError", r.otp, None)
                /\ UNCHANGED <<otp_store, misses>>
           ELSE /\ otp_store' = SetField(otp_store, phone_number, device_id,
                                  IF matched
                                  THEN [otp_store[phone_number][device_id]
                                            EXCEPT !.verified = TRUE]
                                  ELSE [otp_store[phone_number][device_id]
                                            EXCEPT !.attempts = @ + 1])
                /\ result' = Response("verify_otp", phone_number, device_id,
                                      IF matched THEN "Matched" ELSE "Mismatch", r.otp,
                                      IF matched THEN None
                                      ELSE Some(remaining_attempts(
                                               otp_store'[phone_number][device_id].attempts)))
                /\ misses' = [misses EXCEPT ![k] = IF matched THEN @ ELSE @ + 1]
        /\ fresh' = [fresh EXCEPT ![k] = FALSE]
        /\ removed' = None
        /\ body' = None
        /\ UNCHANGED issued

(* the event loop picks a waiting coroutine and runs it to its next await
   point or, if it meets none, to its end *)
Run ==
    \E r \in BagToSet(pending) :
        LET p == strip(r.phone_number)
            d == resolve_device(r.device_id)
            rest == pending (-) SetToBag({r})
        IN  /\ IF /\ r.pc = "start"
                  /\ r.op = "verify_otp"
                  /\ "checked" \in await_points(r.op)
                  /\ VerifyOutcome(otp_store, p, d, strip(r.otp[1]), now)
                        \in {"Matched", "Mismatch"}
               THEN /\ pending' = rest (+) SetToBag({[r EXCEPT
                                      !.pc = "checked",
                                      !.stored_data = Some(otp_store[p][d])]})
                    /\ UNCHANGED <<otp_store, result, issued, misses, fresh, removed, body>>
               ELSE /\ pending' = rest
                    /\ IF r.pc = "checked" THEN resume_verify(r)
                       ELSE \/ /\ r.op = "send_otp"
                               /\ \E c \in generate_otp(otp_length) :
                                     send_otp(r.phone_number, r.device_id, c)
                            \/ /\ r.op = "verify_otp"
                               /\ verify_otp(r.phone_number, r.device_id, r.otp[1])
                            \/ /\ r.op = "clear_otp"
                               /\ clear_otp(r.phone_number, r.device_id)
            /\ UNCHANGED <<now, clients, served>>

InitConcurrent ==
    /\ otp_store = EmptyDict
    /\ now = 0
    /\ result = Response("none", <<>>, "", "none", None, None)
    /\ clients = ConcurrentClients
    /\ served = 0
    /\ issued = [k \in Keys |-> <<>>]
    /\ misses = [k \in Keys |-> 0]
    /\ fresh = [k \in Keys |-> FALSE]
    /\ removed = None
    /\ body = None
    /\ pending = EmptyBag

NextConcurrent == Arrive \/ Run \/ Tick

SpecConcurrent == InitConcurrent /\ [][NextConcurrent]_vars

----------------------------------------------------------------------------
(* Properties.
   A step that leaves the clock alone serves one request; result' holds that
   request and its response. *)

(* C1: when the last request on a key was a send_otp that returned code c and
   the next request on that key is a verify_otp submitting exactly c no later
   than 5 minutes after the issue, the outcome is Matched and the record is
   still stored, with verified = true and attempts = 0. *)
C1_IssueThenVerifyMatches ==
    [][(result'.op = "verify_otp" /\ now' = now) =>
        LET p == result'.phone
            d == result'.device
            k == <<p, d>>
        IN  ( /\ fresh[k]
              /\ issued[k] # <<>>
              /\ result'.otp = Some(issued[k][Len(issued[k])])
              /\ HasRecord(otp_store, p, d)
                    => now <= otp_store[p][d].created_at + expiry_minutes )
            => /\ result'.outcome = "Matched"
               /\ HasRecord(otp_store', p, d)
               /\ otp_store'[p][d].verified = TRUE
               /\ otp_store'[p][d].attempts = 0]_vars

(* a code verified in the last minute of its life, with no failed attempt *)
C1_Witness ==
    /\ result.op = "verify_otp"
    /\ result.outcome = "Matched"
    /\ HasRecord(otp_store, result.phone, result.device)
    /\ LET rec == otp_store[result.phone][result.device]
       IN  /\ rec.verified
           /\ rec.attempts = 0
           /\ result.otp = Some(rec.otp)
           /\ now = rec.created_at + expiry_minutes

(* C2 as stated: on an unexpired record with attempts < 3, a verify_otp whose
   submitted code differs from the stored code increments attempts by exactly
   1, yields Mismatch with 3 - (new attempts) remaining, and keeps the
   record. *)
C2_DifferentCodeIsMismatch ==
    [][(result'.op = "verify_otp" /\ now' = now) =>
        LET p == result'.phone
            d == result'.device
            rec == otp_store[p][d]
        IN  ( /\ HasRecord(otp_store, p, d)
              /\ now <= rec.created_at + expiry_minutes
              /\ rec.attempts < max_attempts
              /\ result'.otp # Some(rec.otp) )
            => /\ result'.outcome = "Mismatch"
               /\ HasRecord(otp_store', p, d)
               /\ otp_store'[p][d].attempts = rec.attempts + 1
               /\ result'.remaining = Some(max_attempts - otp_store'[p][d].attempts)]_vars

(* C2 amended: the same, for a submitted code that still differs from the
   stored code once its surrounding whitespace is trimmed; the third mismatch
   reports 0 remaining and keeps the record. *)
C2_TrimmedDifferentCodeIsMismatch ==
    [][(result'.op = "verify_otp" /\ now' = now) =>
        LET p == result'.phone
            d == result'.device
            rec == otp_store[p][d]
        IN  ( /\ HasRecord(otp_store, p, d)
              /\ now <= rec.created_at + expiry_minutes
              /\ rec.attempts < max_attempts
              /\ strip(result'.otp[1]) # rec.otp )
            => /\ result'.outcome = "Mismatch"
               /\ HasRecord(otp_store', p, d)
               /\ otp_store'[p][d] = [rec EXCEPT !.attempts = rec.attempts + 1]
               /\ result'.remaining = Some(max_attempts - otp_store'[p][d].attempts)]_vars

(* the third mismatch: 0 attempts remaining, record kept *)
C2_Witness ==
    /\ result.op = "verify_otp"
    /\ result.outcome = "Mismatch"
    /\ result.remaining = Some(0)
    /\ HasRecord(otp_store, result.phone, result.device)
    /\ otp_store[result.phone][result.device].attempts = max_attempts
    /\ strip(result.otp[1]) # otp_store[result.phone][result.device].otp

(* C3 as stated: once 3 mismatches have accumulated on a record, the next
   verify_otp on the key yields TooManyAttempts whatever the code, the record
   is removed, and a further verify_otp yields NotFound. *)
C3_ThreeMissesThenTooMany ==
    [][(result'.op = "verify_otp" /\ now' = now) =>
        LET p == result'.phone
            d == result'.device
        IN  misses[<<p, d>>] = max_attempts
            => /\ result'.outcome = "TooManyAttempts"
               /\ ~HasRecord(otp_store', p, d)
               /\ \A c2 \in OtpInputs, t \in Instants :
                     VerifyOutcome(otp_store', p, d, strip(c2), t) = "NotFound"]_vars

(* C3 amended: once 3 mismatches have accumulated on a record, the next
   verify_otp on the key, whatever the code, yields TooManyAttempts if it
   comes no later than 5 minutes after the issue and Expired if it comes
   later; either way the record is removed and a further verify_otp yields
   NotFound. *)
C3_ThreeMissesThenRemoved ==
    [][(result'.op = "verify_otp" /\ now' = now) =>
        LET p == result'.phone
            d == result'.device
        IN  misses[<<p, d>>] = max_attempts
            => /\ HasRecord(otp_store, p, d)
               /\ result'.outcome =
                     IF now > otp_store[p][d].created_at + expiry_minutes
                     THEN "Expired" ELSE "TooManyAttempts"
               /\ ~HasRecord(otp_store', p, d)
               /\ \A c2 \in OtpInputs, t \in Instants :
                     VerifyOutcome(otp_store', p, d, strip(c2), t) = "NotFound"]_vars

(* the right code, submitted in time after three mismatches, is turned away
   and the record is gone *)
C3_Witness ==
    /\ result.op = "verify_otp"
    /\ result.outcome = "TooManyAttempts"
    /\ ~HasRecord(otp_store, result.phone, result.device)
    /\ issued[<<result.phone, result.device>>] # <<>>
    /\ LET codes == issued[<<result.phone, result.device>>]
       IN  result.otp = Some(codes[Len(codes)])

(* C4: on a key that holds a record, verify_otp yields Expired exactly when
   now > created_at + 5 minutes (at exactly 5 minutes the record is still
   live), and whenever it yields Expired the record is removed, whatever the
   submitted code. *)
C4_ExpiredIffPastTtl ==
    [][(result'.op = "verify_otp" /\ now' = now) =>
        LET p == result'.phone
            d == result'.device
        IN  HasRecord(otp_store, p, d)
            => /\ (result'.outcome = "Expired")
                     <=> (now > otp_store[p][d].created_at + expiry_minutes)
               /\ (result'.outcome = "Expired") => ~HasRecord(otp_store', p, d)]_vars

(* the right code submitted a minute too late: Expired, record removed *)
C4_Witness ==
    /\ result.op = "verify_otp"
    /\ result.outcome = "Expired"
    /\ ~HasRecord(otp_store, result.phone, result.device)
    /\ issued[<<result.phone, result.device>>] # <<>>
    /\ LET codes == issued[<<result.phone, result.device>>]
       IN  result.otp = Some(codes[Len(codes)])

(* C5 as stated: after two send_otp on a key returned c1 and then c2, a
   verify_otp on that key submitting c1 yields Mismatch, never Matched. *)
C5_FirstCodeIsMismatch ==
    [][(result'.op = "verify_otp" /\ now' = now) =>
        LET k == <<result'.phone, result'.device>>
        IN  (Len(issued[k]) = 2 /\ result'.otp = Some(issued[k][1]))
            => result'.outcome = "Mismatch"]_vars

(* C5 amended: after two send_otp on a key returned c1 and then c2, a
   verify_otp on that key submitting c1 yields Matched only if c2 = c1; when
   c1 # c2 and the record is unexpired with attempts < 3 it yields
   Mismatch. *)
C5_FirstCodeMatchesOnlyIfReissued ==
    [][(result'.op = "verify_otp" /\ now' = now) =>
        LET p == result'.phone
            d == result'.device
            k == <<p, d>>
            rec == otp_store[p][d]
        IN  (Len(issued[k]) = 2 /\ result'.otp = Some(issued[k][1]))
            => /\ (result'.outcome = "Matched") => (issued[k][2] = issued[k][1])
               /\ ( /\ issued[k][2] # issued[k][1]
                    /\ HasRecord(otp_store, p, d)
                    /\ now <= rec.created_at + expiry_minutes
                    /\ rec.attempts < max_attempts )
                  => result'.outcome = "Mismatch"]_vars

(* the first of two different codes is turned down as a mismatch *)
C5_Witness ==
    /\ result.op = "verify_otp"
    /\ result.outcome = "Mismatch"
    /\ HasRecord(otp_store, result.phone, result.device)
    /\ LET codes == issued[<<result.phone, result.device>>]
       IN  /\ Len(codes) = 2
           /\ codes[1] # codes[2]
           /\ result.otp = Some(codes[1])
           /\ otp_store[result.phone][result.device].otp = codes[2]

(* C6: after a successful send_otp on a key, whatever record the key held
   before, the key holds the record (new code, created_at = now, attempts = 0,
   verified = false) and nothing else of the prior record; the phone's other
   devices are the ones it had. *)
C6_IssueReplacesRecord ==
    [][(result'.op = "send_otp" /\ result'.outcome = "Sent" /\ now' = now) =>
        LET p == result'.phone
            d == result'.device
        IN  /\ HasRecord(otp_store', p, d)
            /\ otp_store'[p][d] =
                  [otp |-> result'.otp[1], created_at |-> now,
                   attempts |-> 0, verified |-> FALSE]
            /\ result'.otp[1] \in generate_otp(otp_length)
            /\ DOMAIN otp_store'[p] =
                  {d} \cup (IF p \in DOMAIN otp_store THEN DOMAIN otp_store[p] ELSE {})]_vars

(* a second code issued on a key, later than the first *)
C6_Witness ==
    /\ result.op = "send_otp"
    /\ result.outcome = "Sent"
    /\ Len(issued[<<result.phone, result.device>>]) = 2
    /\ now > 0
    /\ HasRecord(otp_store, result.phone, result.device)
    /\ otp_store[result.phone][result.device] =
          [otp |-> result.otp[1], created_at |-> now, attempts |-> 0, verified |-> FALSE]

(* C7: clear_otp on a key without a record reports that nothing was found and
   leaves the store unchanged; on a key with a record it removes that record,
   so that a following verify_otp yields NotFound; clearing once more leaves
   the store as the first clear left it. *)
C7_ClearRemovesOnce ==
    [][(result'.op = "clear_otp" /\ now' = now) =>
        LET p == result'.phone
            d == result'.device
        IN  /\ ~HasRecord(otp_store, p, d)
                  => (result'.outcome = "NoOtpFound" /\ otp_store' = otp_store)
            /\ HasRecord(otp_store, p, d)
                  => /\ result'.outcome = "Cleared"
                     /\ ~HasRecord(otp_store', p, d)
                     /\ \A c \in OtpInputs :
                           VerifyOutcome(otp_store', p, d, strip(c), now) = "NotFound"
            /\ ClearStore(otp_store', p, d) = otp_store']_vars

(* a record has just been cleared while another record is still stored *)
C7_Witness ==
    /\ result.op = "clear_otp"
    /\ result.outcome = "Cleared"
    /\ ~HasRecord(otp_store, result.phone, result.device)
    /\ otp_store # EmptyDict

(* C8: verify_otp on a key without a record yields NotFound and changes
   nothing, also when the same phone holds a record under another device. *)
C8_OtherDeviceIsNotFound ==
    [][(result'.op = "verify_otp" /\ now' = now) =>
        (~HasRecord(otp_store, result'.phone, result'.device)
            => (result'.outcome = "NotFound" /\ otp_store' = otp_store))]_vars

(* NotFound for a device of a phone whose other device holds that very code *)
C8_Witness ==
    /\ result.op = "verify_otp"
    /\ result.outcome = "NotFound"
    /\ result.phone \in DOMAIN otp_store
    /\ result.device \notin DOMAIN otp_store[result.phone]
    /\ \E d \in DOMAIN otp_store[result.phone] :
          result.otp = Some(otp_store[result.phone][d].otp)

(* C9: send_otp with a phone number that after trimming is empty or shorter
   than 10 characters fails with InvalidInput and leaves the store as it was,
   with no entry for that phone; with a trimmed phone number of 10 or more
   characters it succeeds. *)
C9_ShortPhoneRejected ==
    [][(result'.op = "send_otp" /\ now' = now) =>
        IF Len(result'.phone) < min_phone_length
        THEN /\ result'.outcome = "InvalidInput"
             /\ otp_store' = otp_store
             /\ result'.phone \notin DOMAIN otp_store'
        ELSE /\ result'.outcome = "Sent"
             /\ HasRecord(otp_store', result'.phone, result'.device)]_vars

(* a phone number long enough only with its surrounding blanks was refused *)
C9_Witness ==
    /\ result.op = "send_otp"
    /\ result.outcome = "InvalidInput"
    /\ result.phone = ShortPhone
    /\ result.phone \notin DOMAIN otp_store

(* C10: once a record has verified = true, no verify_otp on it while it is
   unexpired removes it or resets verified. *)
C10_VerifiedStays ==
    [][(result'.op = "verify_otp" /\ now' = now) =>
        LET p == result'.phone
            d == result'.device
            rec == otp_store[p][d]
        IN  ( /\ HasRecord(otp_store, p, d)
              /\ rec.verified
              /\ now <= rec.created_at + expiry_minutes )
            => /\ HasRecord(otp_store', p, d)
               /\ otp_store'[p][d].verified]_vars

(* C11: whatever requests are in flight and in whatever order the event loop
   runs them, a handler that completes has acted on the ledger as it was when
   that handler started: a verify_otp answers NotFound exactly when the key
   held no record, answers Matched or Mismatch only for a record that was
   there, unexpired and below the cap, and leaves that record in place; every
   Mismatch raises attempts by exactly 1, so that attempts always equals the
   number of Mismatch answers given on the record and the answers report
   3 - that number; a clear_otp answers Cleared exactly when the record was
   there; and no handler fails outside its documented outcomes. *)
C11_HandlersAreAtomic ==
    [][(BagCardinality(pending') < BagCardinality(pending)) =>
        LET p == result'.phone
            d == result'.device
            k == <<p, d>>
        IN  /\ result'.outcome \in {"InvalidInput", "Sent", "NotFound", "Expired",
                                    "TooManyAttempts", "Matched", "Mismatch",
                                    "Cleared", "NoOtpFound"}
            /\ (result'.op = "verify_otp") =>
                  /\ (result'.outcome = "NotFound") <=> ~HasRecord(otp_store, p, d)
                  /\ (result'.outcome \in {"Matched", "Mismatch"}) =>
                        /\ HasRecord(otp_store, p, d)
                        /\ HasRecord(otp_store', p, d)
                        /\ otp_store[p][d].attempts < max_attempts
                        /\ now <= otp_store[p][d].created_at + expiry_minutes
                        /\ (result'.outcome = "Matched")
                              <=> (otp_store[p][d].otp = strip(result'.otp[1]))
                  /\ (result'.outcome = "Mismatch") =>
                        /\ otp_store'[p][d].attempts = otp_store[p][d].attempts + 1
                        /\ result'.remaining = Some(max_attempts - misses'[k])
            /\ (result'.op = "clear_otp") =>
                  /\ (result'.outcome = "Cleared") <=> HasRecord(otp_store, p, d)
                  /\ ~HasRecord(otp_store', p, d)
            /\ \A q \in DOMAIN otp_store' : \A e \in DOMAIN otp_store'[q] :
                  otp_store'[q][e].attempts = misses'[<<q, e>>]]_vars

(* a wrong code was counted once while another wrong code for the same key
   was waiting for the event loop *)
C11_Witness ==
    /\ result.op = "verify_otp"
    /\ result.outcome = "Mismatch"
    /\ result.remaining = Some(2)
    /\ HasRecord(otp_store, result.phone, result.device)
    /\ otp_store[result.phone][result.device].attempts = 1
    /\ misses[<<result.phone, result.device>>] = 1
    /\ \E r \in BagToSet(pending) :
          /\ r.op = "verify_otp"
          /\ <<strip(r.phone_number), resolve_device(r.device_id)>>
                = <<result.phone, result.device>>
          /\ strip(r.otp[1]) # otp_store[result.phone][result.device].otp

(* C12: only send_otp, verify_otp and clear_otp change the ledger.  A step of
   the clock, a listing (get_all_otps) and a status query leave every record,
   an expired one too, present and as it was; the listing holds exactly the
   stored phones and devices with the stored fields, and both report
   expired = (now > created_at + 5 minutes) as of the query. *)
C12_ReadsAndTimeLeaveLedger ==
    [][/\ (otp_store' # otp_store)
            => (now' = now /\ result'.op \in {"send_otp", "verify_otp", "clear_otp"})
       /\ (result'.op = "get_all_otps" /\ now' = now) =>
            /\ otp_store' = otp_store
            /\ DOMAIN body'[1] = DOMAIN otp_store
            /\ \A p \in DOMAIN otp_store :
                  /\ DOMAIN body'[1][p] = DOMAIN otp_store[p]
                  /\ \A d \in DOMAIN otp_store[p] :
                        LET rec == otp_store[p][d]
                            shown == body'[1][p][d]
                        IN  /\ shown.otp = rec.otp
                            /\ shown.attempts = rec.attempts
                            /\ shown.verified = rec.verified
                            /\ shown.created_at = isoformat(rec.created_at)
                            /\ shown.expired = (now > rec.created_at + expiry_minutes)
       /\ (result'.op = "otp_status" /\ now' = now) =>
            LET p == result'.phone
                d == result'.device
            IN  /\ otp_store' = otp_store
                /\ body'[1].exists = HasRecord(otp_store, p, d)
                /\ HasRecord(otp_store, p, d) =>
                      /\ body'[1].info[1].otp = otp_store[p][d].otp
                      /\ body'[1].info[1].attempts = otp_store[p][d].attempts
                      /\ body'[1].info[1].verified = otp_store[p][d].verified
                      /\ body'[1].info[1].expired
                            = (now > otp_store[p][d].created_at + expiry_minutes)]_vars

(* a listing shows an expired record next to a live one, and both are still
   stored *)
C12_Witness ==
    /\ result.op = "get_all_otps"
    /\ body # None
    /\ \E p \in DOMAIN otp_store : \E d \in DOMAIN otp_store[p] :
          /\ body[1][p][d].expired
          /\ now > otp_store[p][d].created_at + expiry_minutes
    /\ \E p \in DOMAIN otp_store : \E d \in DOMAIN otp_store[p] :
          /\ ~body[1][p][d].expired
          /\ otp_store[p][d].created_at = now

(* C13: in send_otp, verify_otp and clear_otp alike, a request whose
   device_id is absent, empty or "default-device" addresses the record
   otp_store[phone]["default-device"]: it answers from that record and changes
   no record of another device of the phone; a request that names another
   device addresses that device's record and leaves the default one alone. *)
C13_DefaultDeviceIsOneKey ==
    [][(now' = now /\ result'.op \in {"send_otp", "verify_otp", "clear_otp"}) =>
        \A d \in clients.devices : \A p \in {q \in clients.phones : strip(q) = result'.phone} :
            LET op == result'.op
                phone == result'.phone
                handled ==
                    \/ op = "send_otp" /\ \E c \in generate_otp(otp_length) : send_otp(p, d, c)
                    \/ op = "verify_otp" /\ verify_otp(p, d, result'.otp[1])
                    \/ op = "clear_otp" /\ clear_otp(p, d)
                device == IF d \in {None, Some(""), Some(default_device)}
                          THEN default_device ELSE d[1]
            IN  handled =>
                  /\ result'.device = device
                  /\ (op = "verify_otp")
                        => ((result'.outcome = "NotFound") <=> ~HasRecord(otp_store, phone, device))
                  /\ (op = "clear_otp")
                        => /\ (result'.outcome = "Cleared") <=> HasRecord(otp_store, phone, device)
                           /\ ~HasRecord(otp_store', phone, device)
                  /\ (op = "send_otp" /\ result'.outcome = "Sent")
                        => /\ HasRecord(otp_store', phone, device)
                           /\ otp_store'[phone][device].otp = result'.otp[1]
                  /\ phone \in DOMAIN otp_store =>
                        \A e \in DOMAIN otp_store[phone] \ {device} :
                            /\ HasRecord(otp_store', phone, e)
                            /\ otp_store'[phone][e] = otp_store[phone][e]]_vars

(* clients that name either no device or "deviceA": the code issued without a
   device was verified without a device, next to the other device's record
   with another code *)
C13_Witness ==
    /\ clients.devices = {None, Some("deviceA")}
    /\ result.op = "verify_otp"
    /\ result.outcome = "Matched"
    /\ result.device = default_device
    /\ HasRecord(otp_store, result.phone, default_device)
    /\ HasRecord(otp_store, result.phone, "deviceA")
    /\ otp_store[result.phone][default_device].verified
    /\ ~otp_store[result.phone]["deviceA"].verified
    /\ otp_store[result.phone][default_device].otp # otp_store[result.phone]["deviceA"].otp

(* C14: a request that fails with InvalidInput or NotFound leaves the whole
   ledger as it was; one that fails with Expired or TooManyAttempts removes
   the record of the addressed key and changes nothing else: every other
   record is still stored with the fields it had, and no record is left with
   attempts or verified changed. *)
C14_FailuresLeaveLedgerSound ==
    [][(now' = now /\ result'.op \in {"send_otp", "verify_otp", "clear_otp"}) =>
        LET p == result'.phone
            d == result'.device
        IN  /\ (result'.outcome \in {"InvalidInput", "NotFound"}) => (otp_store' = otp_store)
            /\ (result'.outcome \in {"Expired", "TooManyAttempts"}) =>
                  /\ HasRecord(otp_store, p, d)
                  /\ ~HasRecord(otp_store', p, d)
                  /\ removed' = Some(otp_store[p][d])
                  /\ \A q \in DOMAIN otp_store : \A e \in DOMAIN otp_store[q] :
                        (<<q, e>> # <<p, d>>)
                            => /\ HasRecord(otp_store', q, e)
                               /\ otp_store'[q][e] = otp_store[q][e]
                  /\ \A q \in DOMAIN otp_store' : \A e \in DOMAIN otp_store'[q] :
                        HasRecord(otp_store, q, e)]_vars

(* an expired record was removed on Expired while the record issued later for
   the phone's other device stayed *)
C14_Witness ==
    /\ result.op = "verify_otp"
    /\ result.outcome = "Expired"
    /\ removed # None
    /\ ~HasRecord(otp_store, result.phone, result.device)
    /\ result.phone \in DOMAIN otp_store
    /\ \E e \in DOMAIN otp_store[result.phone] :
          otp_store[result.phone][e].created_at = now

(* C15: verify_otp tests existence, then expiry, then the attempt cap, then
   the code: without a record it yields NotFound; a record past its 5 minutes
   yields Expired even when its attempts are 3 or more; TooManyAttempts is
   yielded exactly for an unexpired record with attempts >= 3; the code is
   compared only for an unexpired record with attempts < 3. *)
C15_ExpiryBeforeCap ==
    [][(result'.op = "verify_otp" /\ now' = now) =>
        LET p == result'.phone
            d == result'.device
            rec == otp_store[p][d]
            late == now > rec.created_at + expiry_minutes
            capped == rec.attempts >= max_attempts
        IN  IF ~HasRecord(otp_store, p, d)
            THEN result'.outcome = "NotFound"
            ELSE /\ late => (result'.outcome = "Expired")
                 /\ (result'.outcome = "TooManyAttempts") <=> (~late /\ capped)
                 /\ (result'.outcome \in {"Matched", "Mismatch"}) <=> (~late /\ ~capped)]_vars

(* a record with three failed attempts was answered Expired once its time
   had passed *)
C15_Witness ==
    /\ result.op = "verify_otp"
    /\ result.outcome = "Expired"
    /\ removed # None
    /\ removed[1].attempts >= max_attempts
    /\ now > removed[1].created_at + expiry_minutes

(* C16: in every reachable state every stored record has
   0 <= attempts <= 3. *)
C16_AttemptsWithinCap ==
    \A p \in DOMAIN otp_store : \A d \in DOMAIN otp_store[p] :
        otp_store[p][d].attempts \in 0..max_attempts

(* a listing shows a stored record whose attempts have reached the cap *)
C16_Witness ==
    /\ result.op = "get_all_otps"
    /\ \E p \in DOMAIN otp_store : \E d \in DOMAIN otp_store[p] :
          /\ otp_store[p][d].attempts = max_attempts
          /\ body[1][p][d].attempts = max_attempts

(* C17: verify_otp yields Matched only for a stored record that is unexpired,
   has attempts < 3 and holds the submitted code, and then sets verified and
   nothing else; on an expired or exhausted record it never yields Matched,
   whatever the code, and the record is removed; a record becomes verified
   in no other step. *)
C17_MatchedOnlyWhileLive ==
    [][LET p == result'.phone
           d == result'.device
           rec == otp_store[p][d]
       IN  /\ (result'.op = "verify_otp" /\ now' = now) =>
                /\ (result'.outcome = "Matched") =>
                      /\ HasRecord(otp_store, p, d)
                      /\ now <= rec.created_at + expiry_minutes
                      /\ rec.attempts < max_attempts
                      /\ rec.otp = strip(result'.otp[1])
                      /\ HasRecord(otp_store', p, d)
                      /\ otp_store'[p][d] = [rec EXCEPT !.verified = TRUE]
                /\ ( /\ HasRecord(otp_store, p, d)
                     /\ \/ now > rec.created_at + expiry_minutes
                        \/ rec.attempts >= max_attempts )
                      => /\ result'.outcome # "Matched"
                         /\ ~HasRecord(otp_store', p, d)
           /\ \A q \in DOMAIN otp_store' : \A e \in DOMAIN otp_store'[q] :
                ( /\ otp_store'[q][e].verified
                  /\ ~(HasRecord(otp_store, q, e) /\ otp_store[q][e].verified) )
                    => /\ now' = now
                       /\ result'.op = "verify_otp"
                       /\ result'.outcome = "Matched"
                       /\ <<q, e>> = <<p, d>>]_vars

(* the right code, submitted in time on a record with three failed attempts,
   was refused and the record removed unverified *)
C17_Witness ==
    /\ result.op = "verify_otp"
    /\ result.outcome = "TooManyAttempts"
    /\ removed # None
    /\ removed[1].otp = strip(result.otp[1])
    /\ ~removed[1].verified
    /\ now <= removed[1].created_at + expiry_minutes

(* C18: send_otp, verify_otp and clear_otp on key (phone, device) leave every
   other key as it was: a record stored under another key, another device of
   the same phone included, is still stored with the same fields, and no
   record appears under another key; this holds too when the step removes the
   last record of the phone. *)
C18_OtherKeysUntouched ==
    [][(now' = now /\ result'.op \in {"send_otp", "verify_otp", "clear_otp"}) =>
        LET k == <<result'.phone, result'.device>>
        IN  /\ \A q \in DOMAIN otp_store : \A e \in DOMAIN otp_store[q] :
                  (<<q, e>> # k) => /\ HasRecord(otp_store', q, e)
                                    /\ otp_store'[q][e] = otp_store[q][e]
            /\ \A q \in DOMAIN otp_store' : \A e \in DOMAIN otp_store'[q] :
                  (<<q, e>> # k) => HasRecord(otp_store, q, e)]_vars

(* the only record of one phone was cleared and the record of another phone
   is still there *)
C18_Witness ==
    /\ result.op = "clear_otp"
    /\ removed # None
    /\ result.phone \notin DOMAIN otp_store
    /\ \E q \in DOMAIN otp_store : q # result.phone

(* C19: verify_otp does not read the verified flag.  On an unexpired record
   with attempts < 3 that is already verified, the stored code yields Matched
   again and leaves the record as it is, another code yields Mismatch and
   raises attempts by 1; and on any record the outcome is the one the same
   ledger with the flag inverted gives. *)
C19_VerifiedFlagIsNotRead ==
    [][(result'.op = "verify_otp" /\ now' = now) =>
        LET p == result'.phone
            d == result'.device
            rec == otp_store[p][d]
            otp == strip(result'.otp[1])
            inverted == SetField(otp_store, p, d, [rec EXCEPT !.verified = ~rec.verified])
        IN  HasRecord(otp_store, p, d) =>
              /\ result'.outcome = VerifyOutcome(inverted, p, d, otp, now)
              /\ ( /\ rec.verified
                   /\ now <= rec.created_at + expiry_minutes
                   /\ rec.attempts < max_attempts )
                    => IF otp = rec.otp
                       THEN /\ result'.outcome = "Matched"
                            /\ otp_store' = otp_store
                       ELSE /\ result'.outcome = "Mismatch"
                            /\ otp_store'[p][d] = [rec EXCEPT !.attempts = rec.attempts + 1]]_vars

(* a wrong code was counted on a record that had been verified before *)
C19_Witness ==
    /\ result.op = "verify_otp"
    /\ result.outcome = "Mismatch"
    /\ HasRecord(otp_store, result.phone, result.device)
    /\ otp_store[result.phone][result.device].verified
    /\ otp_store[result.phone][result.device].attempts = 1

(* C20: in every reachable state no phone of otp_store maps to an empty
   device mapping, and a listing never shows a phone without a device. *)
C20_NoEmptyPhoneEntry ==
    /\ \A p \in DOMAIN otp_store : DOMAIN otp_store[p] # {}
    /\ (result.op = "get_all_otps") => \A p \in DOMAIN body[1] : DOMAIN body[1][p] # {}

(* verify_otp removed the last record of a phone, and its entry with it, while
   another phone still holds one *)
C20_Witness ==
    /\ result.op = "verify_otp"
    /\ result.outcome \in {"Expired", "TooManyAttempts"}
    /\ removed # None
    /\ result.phone \notin DOMAIN otp_store
    /\ otp_store # EmptyDict

====
